---- MODULE Spec2Model ----
(***************************************************************************)
(* Model of the second-brain daemon's mode transition engine               *)
(* (daemon/src/state/machine.rs) over the modifier-key value type          *)
(* (daemon/src/hotkey/keys.rs) and the lifecycle events it publishes       *)
(* (daemon/src/events/mod.rs).                                             *)
(***************************************************************************)
EXTENDS Integers, Sequences, FiniteSets, TLC

VARIABLES
    state,             \* StateMachine.state
    prev_modifiers,    \* StateMachine.prev_modifiers
    state_entered_at,  \* StateMachine.state_entered_at: None or Some(instant)
    sent,              \* every value handed to event_tx.send, in order
    now,               \* the monotonic clock read by Instant::now / elapsed
    last_call,         \* history: the most recent handle_modifier_change call
    toggles_in_hold,   \* history: Agent toggles since control+command were last not both held
    fold,              \* history: the rule table folded over the handled Modifier States
    sent_at,           \* history: the clock at each event_tx.send, parallel to sent
    conns,             \* per connection: the client's stream and the handle_client task
    server_state,      \* Server.state: the lock-guarded ServerState
    ipc_event_rx,      \* main's ipc_event_rx: how many events of sent it has received
    main_pc,           \* main: "select" in the main loop, "stopped" after Server::shutdown
    socket_file,       \* whether the socket file exists at socket_path
    frames_sent,       \* history: how many frames the clients have written
    mode_writer,       \* history: who wrote status.mode last, and which mode
    ipc_last,          \* history: the most recent process_request call
    rx_cnt,            \* event bus: how many Receivers of the channel are alive
    tail,              \* event bus: how many values the channel has taken
    received,          \* history: what ipc_event_rx.recv() has returned, in order
    tap,               \* the key-hook: "starting", "enabled", "disabled", "unavailable"
    last_state,        \* run_event_loop's last_state
    hotkey_ch,         \* the hotkey mpsc channel: events sent and not yet received
    hotkey_open,       \* whether a Sender of the hotkey channel is alive
    run_pc,            \* StateMachine::run: "running" or "stopped"
    forwarded,         \* history: every Modifier State the listener has sent
    handled,           \* history: every Modifier State given to handle_modifier_change
    codec,             \* a protocol value on its way through encoding and decoding
    servers,           \* per Server on the socket path: "none", "live", "down", "killed"
    path_file          \* the socket file at the path: 0 when absent, else its binder

engine_vars ==
    <<state, prev_modifiers, state_entered_at, sent, last_call, toggles_in_hold,
      fold, sent_at>>

ipc_vars ==
    <<conns, server_state, ipc_event_rx, main_pc, socket_file, frames_sent,
      mode_writer, ipc_last>>

bus_vars == <<rx_cnt, tail, received>>

hotkey_vars ==
    <<tap, last_state, hotkey_ch, hotkey_open, run_pc, forwarded, handled>>

socket_vars == <<servers, path_file>>

\* What neither the engine nor the server's handlers touch.
env_vars == <<hotkey_vars, codec, socket_vars>>

vars == <<engine_vars, now, ipc_vars, bus_vars, env_vars>>

----------------------------------------------------------------------------
(* Bounds of the model *)

\* The handler is explored while fewer than MaxSent events have been published.
MaxSent == 6

\* The clock advances at most MaxClock ticks.
MaxClock == 2

\* The event bus is explored while fewer than MaxPublished events have been
\* published: past the channel's capacity, so that a Receiver can lag twice.
MaxPublished == 66

\* The engine without listeners is explored while fewer than MaxUnheard
\* events have been handed to the bus.
MaxUnheard == 2

\* The key-hook is explored while fewer than MaxForwarded Modifier States
\* have been sent to the engine.
MaxForwarded == 3

\* The numbers carried by the encoded values (uptime_secs, duration_ms)
\* range over 0..MaxWireNum.
MaxWireNum == 1

\* The clients write at most MaxFrames frames in all.
MaxFrames == 2

\* With the server running, the engine is explored while fewer than
\* MaxBusEvents events have been published.
MaxBusEvents == 2

----------------------------------------------------------------------------
(* Value types *)

\* enum State
States == {"Idle", "DictationActive", "IntelligentActive", "AgentActive"}

\* struct ModifierState { control, option, command }
ModifierStates == [control : BOOLEAN, option : BOOLEAN, command : BOOLEAN]

\* ModifierState::default(): the derived Default, every key released
DefaultModifiers == [control |-> FALSE, option |-> FALSE, command |-> FALSE]

\* Option<Instant>
None == <<>>

Some(t) == <<t>>

\* enum StateEvent, the variants the engine constructs
DictationStarted == [type |-> "DictationStarted"]

DictationComplete(duration_ms) == [type |-> "DictationComplete", duration_ms |-> duration_ms]

IntelligentStarted == [type |-> "IntelligentStarted"]

IntelligentRequestComplete(duration_ms) == [type |-> "IntelligentRequestComplete", duration_ms |-> duration_ms]

AgentModeEntered == [type |-> "AgentModeEntered"]

AgentModeExited(duration_ms) == [type |-> "AgentModeExited", duration_ms |-> duration_ms]

----------------------------------------------------------------------------
(* ModifierState predicates (keys.rs) *)

is_empty(m) == ~m.control /\ ~m.option /\ ~m.command

is_control_only(m) == m.control /\ ~m.option /\ ~m.command

is_control_option(m) == m.control /\ m.option /\ ~m.command

\* Variant: the command check without the option exclusion.
is_control_command_any_option(m) == m.control /\ m.command

is_control_command(m) == m.control /\ m.command /\ ~m.option

----------------------------------------------------------------------------
(* The rule table (machine.rs) *)

\* Variant: level memory, the keys held now, whatever was held before.
is_rising_edge_control_command_level(modifiers) ==
    is_control_command(modifiers)

\* Both Control and Command are now pressed, and at least one of them was
\* not pressed before.
is_rising_edge_control_command(modifiers) ==
    is_control_command(modifiers)
        /\ (~prev_modifiers.control \/ ~prev_modifiers.command)

\* Variant: Agent entered on the held combination, not on its rising edge.
compute_from_idle_level(modifiers) ==
    IF is_control_command(modifiers) THEN "AgentActive"
    ELSE IF is_control_option(modifiers) THEN "IntelligentActive"
    ELSE IF is_control_only(modifiers) THEN "DictationActive"
    ELSE "Idle"

compute_from_idle(modifiers) ==
    IF is_rising_edge_control_command(modifiers) THEN "AgentActive"
    ELSE IF is_control_option(modifiers) THEN "IntelligentActive"
    ELSE IF is_control_only(modifiers) THEN "DictationActive"
    ELSE "Idle"

\* Variant: Dictation kept only while control alone is held.
compute_from_dictation_strict(modifiers) ==
    IF is_control_option(modifiers) THEN "IntelligentActive"
    ELSE IF ~is_control_only(modifiers) THEN "Idle"
    ELSE "DictationActive"

compute_from_dictation(modifiers) ==
    IF is_control_option(modifiers) THEN "IntelligentActive"
    ELSE IF ~modifiers.control THEN "Idle"
    ELSE "DictationActive"

\* Variant: Intelligent kept only while exactly control+option are held.
compute_from_intelligent_strict(modifiers) ==
    IF ~is_control_option(modifiers) THEN "Idle"
    ELSE "IntelligentActive"

compute_from_intelligent(modifiers) ==
    IF ~modifiers.control \/ ~modifiers.option THEN "Idle"
    ELSE "IntelligentActive"

\* Variant: Agent as a momentary hold, left when control is released.
compute_from_agent_momentary(modifiers) ==
    IF is_rising_edge_control_command(modifiers) \/ ~modifiers.control THEN "Idle"
    ELSE "AgentActive"

compute_from_agent(modifiers) ==
    IF is_rising_edge_control_command(modifiers) THEN "Idle"
    ELSE "AgentActive"

\* Variant: the Idle rules applied in every mode.
compute_next_state_idle_rules(modifiers) == compute_from_idle(modifiers)

compute_next_state(modifiers) ==
    CASE state = "Idle" -> compute_from_idle(modifiers)
      [] state = "DictationActive" -> compute_from_dictation(modifiers)
      [] state = "IntelligentActive" -> compute_from_intelligent(modifiers)
      [] state = "AgentActive" -> compute_from_agent(modifiers)

----------------------------------------------------------------------------
(* Event emission (machine.rs) *)

\* Variant: the Intelligent arm publishing the Dictation exit event.
emit_exit_event_wrong_arm(s, duration_ms) ==
    CASE s = "Idle" -> <<>>
      [] s = "DictationActive" -> <<DictationComplete(duration_ms)>>
      [] s = "IntelligentActive" -> <<DictationComplete(duration_ms)>>
      [] s = "AgentActive" -> <<AgentModeExited(duration_ms)>>

\* The events emit_exit_event hands to event_tx.send: none for Idle.
emit_exit_event(s, duration_ms) ==
    CASE s = "Idle" -> <<>>
      [] s = "DictationActive" -> <<DictationComplete(duration_ms)>>
      [] s = "IntelligentActive" -> <<IntelligentRequestComplete(duration_ms)>>
      [] s = "AgentActive" -> <<AgentModeExited(duration_ms)>>

\* The events emit_entry_event hands to event_tx.send: none for Idle.
emit_entry_event(s) ==
    CASE s = "Idle" -> <<>>
      [] s = "DictationActive" -> <<DictationStarted>>
      [] s = "IntelligentActive" -> <<IntelligentStarted>>
      [] s = "AgentActive" -> <<AgentModeEntered>>

\* Variant: the time since the clock's origin instead of since the entry.
dwell_since_origin == now

\* state_entered_at.map(|t| t.elapsed().as_millis() as u64).unwrap_or(0);
\* one clock tick is one millisecond.
dwell_duration_ms ==
    IF state_entered_at = None THEN 0 ELSE now - state_entered_at[1]

\* Variant: the entry instant set on every transition, Idle included.
entered_at_always(new_state) == Some(now)

\* The entry instant transition_to stores for the state it enters.
entered_at_for(new_state) ==
    IF new_state # "Idle" THEN Some(now) ELSE None

\* Variant: the entry event published before the exit event.
transition_events_entry_first(new_state) ==
    emit_entry_event(new_state) \o emit_exit_event(state, dwell_duration_ms)

\* The events one transition_to(new_state) publishes, in order.
transition_events(new_state) ==
    emit_exit_event(state, dwell_duration_ms) \o emit_entry_event(new_state)

transition_to(new_state) ==
    /\ sent' = sent \o transition_events(new_state)
    /\ state' = new_state
    /\ state_entered_at' = entered_at_for(new_state)

\* Variant: the Modifier State remembered only by a call that changes the mode.
remembered_on_change(modifiers) ==
    IF compute_next_state(modifiers) # state THEN modifiers ELSE prev_modifiers

\* The value handle_modifier_change stores in prev_modifiers on return.
remembered_modifiers(modifiers) == modifiers

----------------------------------------------------------------------------
(* History of calls: last_call records the state a call started in, the    *)
(* Modifier State it was given, the Modifier State given to the call       *)
(* before it (all released when there was none) and what it published.     *)

\* A rising edge of control+command: both keys are held in m and at least
\* one of them was not held in the Modifier State handled before it.
RisingEdge(before, m) ==
    m.control /\ m.command /\ (~before.control \/ ~before.command)

AllThree == [control |-> TRUE, option |-> TRUE, command |-> TRUE]

ControlOnly == [control |-> TRUE, option |-> FALSE, command |-> FALSE]

Kinds(events) == [i \in 1..Len(events) |-> events[i].type]

ExitKind(s) ==
    CASE s = "Idle" -> <<>>
      [] s = "DictationActive" -> <<"DictationComplete">>
      [] s = "IntelligentActive" -> <<"IntelligentRequestComplete">>
      [] s = "AgentActive" -> <<"AgentModeExited">>

EntryKind(s) ==
    CASE s = "Idle" -> <<>>
      [] s = "DictationActive" -> <<"DictationStarted">>
      [] s = "IntelligentActive" -> <<"IntelligentStarted">>
      [] s = "AgentActive" -> <<"AgentModeEntered">>

EntryKinds == {"DictationStarted", "IntelligentStarted", "AgentModeEntered"}

ExitKinds == {"DictationComplete", "IntelligentRequestComplete", "AgentModeExited"}

\* The rule table stated on the Modifier States alone, every key combination
\* excluding the third key: the mode after one call from mode, given the
\* Modifier State handled before and the one handled now.
TableStep(mode, before, m) ==
    CASE mode = "Idle" ->
            IF RisingEdge(before, m) /\ ~m.option THEN "AgentActive"
            ELSE IF m.control /\ m.option /\ ~m.command THEN "IntelligentActive"
            ELSE IF m = ControlOnly THEN "DictationActive"
            ELSE "Idle"
      [] mode = "DictationActive" ->
            IF m.control /\ m.option /\ ~m.command THEN "IntelligentActive"
            ELSE IF ~m.control THEN "Idle"
            ELSE "DictationActive"
      [] mode = "IntelligentActive" ->
            IF ~m.control \/ ~m.option THEN "Idle" ELSE "IntelligentActive"
      [] mode = "AgentActive" ->
            IF RisingEdge(before, m) /\ ~m.option THEN "Idle" ELSE "AgentActive"

\* The rule table read without the exclusions it does not spell out:
\* control+command whatever option is, and from Dictation control+option
\* whatever command is.
StatedTableStep(mode, before, m) ==
    CASE mode = "Idle" ->
            IF RisingEdge(before, m) THEN "AgentActive"
            ELSE IF m.control /\ m.option /\ ~m.command THEN "IntelligentActive"
            ELSE IF m = ControlOnly THEN "DictationActive"
            ELSE "Idle"
      [] mode = "DictationActive" ->
            IF m.control /\ m.option THEN "IntelligentActive"
            ELSE IF ~m.control THEN "Idle"
            ELSE "DictationActive"
      [] mode = "IntelligentActive" ->
            IF ~m.control \/ ~m.option THEN "Idle" ELSE "IntelligentActive"
      [] mode = "AgentActive" ->
            IF RisingEdge(before, m) THEN "Idle" ELSE "AgentActive"

\* The event kinds a step of the table from old to new stands for.
TableKinds(old, new) ==
    IF old = new THEN <<>> ELSE ExitKind(old) \o EntryKind(new)

\* fold: the table folded over the Modifier States handled so far, from Idle
\* with every key released before the first one; no clock enters it.
NoFold == [mode |-> "Idle", stated |-> "Idle", kinds |-> <<>>]

FoldStep(f, before, m) ==
    [mode |-> TableStep(f.mode, before, m),
     stated |-> StatedTableStep(f.stated, before, m),
     kinds |-> f.kinds \o TableKinds(f.mode, TableStep(f.mode, before, m))]

NoCall ==
    [called |-> FALSE, after_call |-> FALSE, old_state |-> "Idle",
     preceding |-> DefaultModifiers, modifiers |-> DefaultModifiers,
     duration_ms |-> 0, emitted |-> <<>>]

IsToggle(old, new) ==
    \/ old = "Idle" /\ new = "AgentActive"
    \/ old = "AgentActive" /\ new = "Idle"

BothHeld(m) == m.control /\ m.command

----------------------------------------------------------------------------
(* IPC protocol values (ipc/protocol.rs) *)

\* enum Mode
Modes == {"Idle", "Dictation", "Intelligent", "Agent"}

\* impl From<State> for Mode
mode_from_state(s) ==
    CASE s = "Idle" -> "Idle"
      [] s = "DictationActive" -> "Dictation"
      [] s = "IntelligentActive" -> "Intelligent"
      [] s = "AgentActive" -> "Agent"

\* enum Request
GetStatus == [type |-> "get_status"]

SetMode(mode) == [type |-> "set_mode", mode |-> mode]

Ping == [type |-> "ping"]

Subscribe == [type |-> "subscribe"]

Requests == {GetStatus, Ping, Subscribe} \cup {SetMode(mode) : mode \in Modes}

\* enum Response, the variants the server constructs
Status(status) ==
    [type |-> "status", mode |-> status.mode,
     hotkey_registered |-> status.hotkey_registered,
     uptime_secs |-> status.uptime_secs]

ModeChange(mode, active) == [type |-> "mode_change", mode |-> mode, active |-> active]

Pong == [type |-> "pong"]

Subscribed == [type |-> "subscribed"]

\* DaemonStatus::default(); the version string is fixed and left out.
DefaultStatus == [mode |-> "Idle", hotkey_registered |-> FALSE, uptime_secs |-> 0]

----------------------------------------------------------------------------
(* Frames on a connection (ipc/server.rs) *)

\* A payload that is not the encoding of any Request.
Undecodable == [type |-> "?"]

\* A payload the client announced and has not written.
Missing == [type |-> "-"]

\* u32::from_le_bytes(len_buf) as usize
u32_from_le_bytes(b) == b[1] + b[2] * 256 + b[3] * 65536 + b[4] * 16777216

\* Variant: a frame of exactly the maximum rejected too.
message_too_large_inclusive(len) == len >= 1024 * 1024

\* if len > 1024 * 1024
message_too_large(len) == len > 1024 * 1024

\* Variant: a payload that does not decode taken for a Ping.
parse_request_lenient(msg_buf) ==
    IF msg_buf \in Requests
    THEN [ok |-> TRUE, request |-> msg_buf]
    ELSE [ok |-> TRUE, request |-> Ping]

\* serde_json::from_slice::<Request>(&msg_buf): the payload is kept by what
\* it decodes to.
parse_request(msg_buf) ==
    IF msg_buf \in Requests
    THEN [ok |-> TRUE, request |-> msg_buf]
    ELSE [ok |-> FALSE, request |-> msg_buf]

\* The length prefixes the clients write: a short payload, exactly 1 MiB,
\* 1 MiB + 1, and 2,000,000, each as 4 little-endian bytes.
ShortLen == <<32, 0, 0, 0>>

MaxLenBuf == <<0, 0, 16, 0>>

OverLenBuf == <<1, 0, 16, 0>>

TwoMillionLenBuf == <<128, 132, 30, 0>>

Frame(len_buf, msg) == [len_buf |-> len_buf, msg |-> msg]

\* One request of each kind.
RequestKinds == {GetStatus, SetMode("Agent"), Ping, Subscribe}

\* The frames a client may write.
Frames ==
    {Frame(ShortLen, r) : r \in RequestKinds}
        \cup {Frame(MaxLenBuf, Ping), Frame(OverLenBuf, Ping), Frame(TwoMillionLenBuf, Ping),
              Frame(ShortLen, Undecodable), Frame(ShortLen, Missing)}

\* The frames of well-formed requests that read or write the snapshot.
RequestFrames == {Frame(ShortLen, r) : r \in Requests \ {Ping}}

Conns == {1, 2}

\* A connection nobody has opened.
NoConn ==
    [pc |-> "none", inbox |-> <<>>, peer_closed |-> FALSE,
     len_buf |-> <<0, 0, 0, 0>>, msg_buf |-> Missing, pending |-> <<>>,
     is_subscribed |-> FALSE, out |-> <<>>, reqs |-> <<>>,
     prefixes_read |-> 0, payloads_read |-> 0, subscribed_at |-> -1,
     ended |-> ""]

InFlight == {"read_len", "read_body", "write"}

NoRequest ==
    [called |-> FALSE, conn |-> 0, request |-> Ping, response |-> Pong,
     mode_after |-> "Idle", writer |-> [by |-> "new", mode |-> "Idle"],
     published |-> 0, received |-> 0, tap |-> "starting"]

----------------------------------------------------------------------------
(* Actions *)

\* The Server values started on the one socket path.
Servers == {1, 2, 3}

\* No value is being encoded.
NoCodec ==
    [pc |-> "idle",
     value |-> [family |-> "Request", variant |-> "Ping"],
     wire |-> <<>>,
     decoded |-> [ok |-> FALSE, error |-> "not decoded"]]

\* The engine and the daemon around it once constructed, the event bus
\* having the given number of Receivers.
Constructed(receivers) ==
    /\ state = "Idle"
    /\ prev_modifiers = DefaultModifiers
    /\ state_entered_at = None
    /\ sent = <<>>
    /\ now = 0
    /\ last_call = NoCall
    /\ toggles_in_hold = 0
    /\ fold = NoFold
    /\ sent_at = <<>>
    /\ conns = [c \in Conns |-> NoConn]
    /\ server_state =
          [status |-> DefaultStatus, start_time |-> 0, current_state |-> "Idle"]
    /\ ipc_event_rx = 0
    /\ main_pc = "select"
    /\ socket_file = TRUE
    /\ frames_sent = 0
    /\ mode_writer = [by |-> "new", mode |-> "Idle"]
    /\ ipc_last = NoRequest
    /\ rx_cnt = receivers
    /\ tail = 0
    /\ received = <<>>
    /\ tap = "starting"
    /\ last_state = DefaultModifiers
    /\ hotkey_ch = <<>>
    /\ hotkey_open = TRUE
    /\ run_pc = "running"
    /\ forwarded = <<>>
    /\ handled = <<>>
    /\ codec = NoCodec
    /\ servers = [s \in Servers |-> "none"]
    /\ path_file = 0

\* main before its select!: the bus has the Receivers _event_rx, the one
\* given to Server::with_events and ipc_event_rx.
Init == Constructed(3)

\* tests::create_state_machine with the Receiver dropped by the caller.
TestInit == Constructed(0)

\* Variant: the channel taking a value although nobody can receive it.
send_accepted_always(n) == n

\* event_tx.send: with no Receiver alive it returns Err and keeps nothing;
\* the engine drops the result (let _ =). How many of n values are taken.
send_accepted(n) == IF rx_cnt > 0 THEN n ELSE 0

handle_modifier_change(modifiers) ==
    LET old_state == state
        new_state == compute_next_state(modifiers)
    IN  /\ IF new_state # old_state
             THEN transition_to(new_state)
             ELSE UNCHANGED <<state, state_entered_at, sent>>
        /\ prev_modifiers' = remembered_modifiers(modifiers)

\* handle_modifier_change(modifiers) together with the history it leaves.
HandleCall(modifiers) ==
    /\ handle_modifier_change(modifiers)
    /\ last_call' =
          [called |-> TRUE, after_call |-> last_call.called,
           old_state |-> state, preceding |-> last_call.modifiers,
           modifiers |-> modifiers,
           duration_ms |-> IF state' # state THEN dwell_duration_ms ELSE 0,
           emitted |-> SubSeq(sent', Len(sent) + 1, Len(sent'))]
    /\ toggles_in_hold' =
          IF ~BothHeld(modifiers) THEN 0
          ELSE (IF BothHeld(last_call.modifiers) THEN toggles_in_hold ELSE 0)
               + (IF IsToggle(state, state') THEN 1 ELSE 0)
    /\ fold' = FoldStep(fold, last_call.modifiers, modifiers)
    /\ sent_at' = sent_at \o [i \in 1..(Len(sent') - Len(sent)) |-> now]
    /\ tail' = tail + send_accepted(Len(sent') - Len(sent))

\* One call of handle_modifier_change with any Modifier State.
HandleModifierChange ==
    /\ Len(sent) < MaxSent
    /\ \E modifiers \in ModifierStates : HandleCall(modifiers)
    /\ UNCHANGED <<now, ipc_vars, rx_cnt, received, env_vars>>

\* Time passes between calls.
Tick ==
    /\ now < MaxClock
    /\ now' = now + 1
    /\ UNCHANGED <<engine_vars, ipc_vars, bus_vars, env_vars>>

Next == HandleModifierChange \/ Tick

Spec == Init /\ [][Next]_vars

----------------------------------------------------------------------------
(* The IPC server (ipc/server.rs) and the main loop around it (main.rs) *)

\* broadcast::channel::<StateEvent>(64)
EventCapacity == 64

\* Variant: SetMode going through the same writes as set_state.
process_request_as_set_state(request) ==
    CASE request.type = "ping" ->
            [response |-> Pong, subscribe |-> FALSE, state |-> server_state]
      [] request.type = "get_status" ->
            LET st == [server_state EXCEPT
                          !.status.uptime_secs = (now - server_state.start_time) \div 1000]
            IN  [response |-> Status(st.status), subscribe |-> FALSE, state |-> st]
      [] request.type = "set_mode" ->
            [response |-> ModeChange(request.mode, request.mode # "Idle"),
             subscribe |-> FALSE,
             state |-> [server_state EXCEPT !.status.mode = request.mode,
                                            !.status.hotkey_registered = TRUE]]
      [] request.type = "subscribe" ->
            [response |-> Subscribed, subscribe |-> TRUE, state |-> server_state]

\* Variant: SetMode answering without storing the mode.
process_request_no_store(request) ==
    CASE request.type = "ping" ->
            [response |-> Pong, subscribe |-> FALSE, state |-> server_state]
      [] request.type = "get_status" ->
            LET st == [server_state EXCEPT
                          !.status.uptime_secs = (now - server_state.start_time) \div 1000]
            IN  [response |-> Status(st.status), subscribe |-> FALSE, state |-> st]
      [] request.type = "set_mode" ->
            [response |-> ModeChange(request.mode, request.mode # "Idle"),
             subscribe |-> FALSE, state |-> server_state]
      [] request.type = "subscribe" ->
            [response |-> Subscribed, subscribe |-> TRUE, state |-> server_state]

\* Variant: the Ping and Subscribe arms answering each other's response.
process_request_swapped(request) ==
    CASE request.type = "ping" ->
            [response |-> Subscribed, subscribe |-> FALSE, state |-> server_state]
      [] request.type = "get_status" ->
            LET st == [server_state EXCEPT
                          !.status.uptime_secs = (now - server_state.start_time) \div 1000]
            IN  [response |-> Status(st.status), subscribe |-> FALSE, state |-> st]
      [] request.type = "set_mode" ->
            [response |-> ModeChange(request.mode, request.mode # "Idle"),
             subscribe |-> FALSE,
             state |-> [server_state EXCEPT !.status.mode = request.mode]]
      [] request.type = "subscribe" ->
            [response |-> Pong, subscribe |-> TRUE, state |-> server_state]

\* Server::process_request under the write lock: the response, whether the
\* connection subscribes, and the ServerState it leaves. The clock counts
\* milliseconds, uptime_secs whole seconds.
process_request(request) ==
    CASE request.type = "ping" ->
            [response |-> Pong, subscribe |-> FALSE, state |-> server_state]
      [] request.type = "get_status" ->
            LET st == [server_state EXCEPT
                          !.status.uptime_secs = (now - server_state.start_time) \div 1000]
            IN  [response |-> Status(st.status), subscribe |-> FALSE, state |-> st]
      [] request.type = "set_mode" ->
            [response |-> ModeChange(request.mode, request.mode # "Idle"),
             subscribe |-> FALSE,
             state |-> [server_state EXCEPT !.status.mode = request.mode]]
      [] request.type = "subscribe" ->
            [response |-> Subscribed, subscribe |-> TRUE, state |-> server_state]

\* Server::set_state under the write lock.
set_state(new_state) ==
    [server_state EXCEPT !.current_state = new_state,
                         !.status.mode = mode_from_state(new_state),
                         !.status.hotkey_registered = TRUE]

\* Variant: the exit events skipped like the audio events.
state_for_event_entries_only(event) ==
    CASE event.type = "DictationStarted" -> Some("DictationActive")
      [] event.type = "IntelligentStarted" -> Some("IntelligentActive")
      [] event.type = "AgentModeEntered" -> Some("AgentActive")
      [] OTHER -> None

\* main's mapping of a received event to the state it reports; None for the
\* audio events, which it skips.
state_for_event(event) ==
    CASE event.type = "DictationStarted" -> Some("DictationActive")
      [] event.type = "DictationComplete" -> Some("Idle")
      [] event.type = "IntelligentStarted" -> Some("IntelligentActive")
      [] event.type = "IntelligentRequestComplete" -> Some("Idle")
      [] event.type = "AgentModeEntered" -> Some("AgentActive")
      [] event.type = "AgentModeExited" -> Some("Idle")
      [] OTHER -> None

\* Variant: an error in one handler ending every handler in flight.
handler_returns_all(cs, c, why) ==
    [d \in Conns |->
        IF cs[d].pc \in InFlight
        THEN [cs[d] EXCEPT !.pc = "stopped", !.ended = why]
        ELSE cs[d]]

\* handle_client returning in its own spawned task: the stream is dropped,
\* an Err is logged by the task and goes no further.
handler_returns(cs, c, why) ==
    [cs EXCEPT ![c].pc = "stopped", ![c].ended = why]

\* Variant: the shutdown signal looked at only between a request and its response.
select_shutdown_between_requests(c) ==
    main_pc = "stopped" /\ conns[c].pc = "write"

\* The shutdown_rx.recv() branch of the task's select!: ready once
\* Server::shutdown has sent, whatever the handler is waiting for.
select_shutdown_branch(c) ==
    main_pc = "stopped" /\ conns[c].pc \in InFlight

\* listener.accept() in Server::run, for a client that connects: a task is
\* spawned for the connection.
Accept(c) ==
    /\ main_pc = "select"
    /\ socket_file
    /\ conns[c].pc = "none"
    /\ conns' = [conns EXCEPT ![c].pc = "read_len"]
    /\ UNCHANGED <<engine_vars, now, bus_vars, env_vars, server_state, ipc_event_rx, main_pc,
                   socket_file, frames_sent, mode_writer, ipc_last>>

\* The client writes a frame; after a prefix whose payload it withholds it
\* writes nothing more.
ClientSend(c, frame) ==
    /\ conns[c].pc \in InFlight
    /\ ~conns[c].peer_closed
    /\ frames_sent < MaxFrames
    /\ IF conns[c].inbox = <<>>
       THEN TRUE
       ELSE conns[c].inbox[Len(conns[c].inbox)].msg # Missing
    /\ conns' = [conns EXCEPT ![c].inbox = Append(@, frame)]
    /\ frames_sent' = frames_sent + 1
    /\ UNCHANGED <<engine_vars, now, bus_vars, env_vars, server_state, ipc_event_rx, main_pc,
                   socket_file, mode_writer, ipc_last>>

\* The client closes its end of the stream.
ClientClose(c) ==
    /\ conns[c].pc \in InFlight
    /\ ~conns[c].peer_closed
    /\ conns' = [conns EXCEPT ![c].peer_closed = TRUE]
    /\ UNCHANGED <<engine_vars, now, bus_vars, env_vars, server_state, ipc_event_rx, main_pc,
                   socket_file, frames_sent, mode_writer, ipc_last>>

\* handle_client: stream.read_exact(&mut len_buf) and the size check.
ReadLen(c) ==
    /\ conns[c].pc = "read_len"
    /\ \/ /\ conns[c].inbox # <<>>
          /\ LET len_buf == Head(conns[c].inbox).len_buf
                 len == u32_from_le_bytes(len_buf)
                 got == [conns EXCEPT ![c].len_buf = len_buf,
                                      ![c].prefixes_read = @ + 1]
             IN  conns' = IF message_too_large(len)
                          THEN handler_returns(got, c, "too_large")
                          ELSE [got EXCEPT ![c].pc = "read_body"]
       \/ /\ conns[c].inbox = <<>>
          /\ conns[c].peer_closed
          /\ conns' = handler_returns(conns, c, "eof")
    /\ UNCHANGED <<engine_vars, now, bus_vars, env_vars, server_state, ipc_event_rx, main_pc,
                   socket_file, frames_sent, mode_writer, ipc_last>>

\* handle_client: stream.read_exact(&mut msg_buf), serde_json::from_slice
\* and process_request.
ReadBody(c) ==
    /\ conns[c].pc = "read_body"
    /\ LET frame == Head(conns[c].inbox)
       IN  \/ /\ frame.msg = Missing
              /\ conns[c].peer_closed
              /\ conns' = handler_returns(conns, c, "read_error")
              /\ UNCHANGED <<server_state, mode_writer, ipc_last>>
           \/ /\ frame.msg # Missing
              /\ LET parsed == parse_request(frame.msg)
                     got == [conns EXCEPT ![c].inbox = Tail(@),
                                          ![c].msg_buf = frame.msg,
                                          ![c].payloads_read = @ + 1]
                     r == process_request(parsed.request)
                 IN  IF ~parsed.ok
                     THEN /\ conns' = handler_returns(got, c, "parse_error")
                          /\ UNCHANGED <<server_state, mode_writer, ipc_last>>
                     ELSE /\ server_state' = r.state
                          /\ conns' =
                                [got EXCEPT
                                    ![c].pc = "write",
                                    ![c].pending = <<r.response>>,
                                    ![c].is_subscribed = @ \/ r.subscribe,
                                    ![c].subscribed_at =
                                        IF r.subscribe /\ @ = -1 THEN Len(sent) ELSE @,
                                    ![c].reqs = Append(@, parsed.request)]
                          /\ mode_writer' =
                                IF parsed.request.type = "set_mode"
                                THEN [by |-> "set_mode", mode |-> parsed.request.mode]
                                ELSE mode_writer
                          /\ ipc_last' =
                                [called |-> TRUE, conn |-> c,
                                 request |-> parsed.request,
                                 response |-> r.response,
                                 mode_after |-> r.state.status.mode,
                                 writer |-> mode_writer',
                                 published |-> Len(sent),
                                 received |-> ipc_event_rx,
                                 tap |-> tap]
    /\ UNCHANGED <<engine_vars, now, bus_vars, env_vars, ipc_event_rx, main_pc, socket_file, frames_sent>>

\* handle_client: send_message(&mut stream, &response); the write can fail
\* once the client has closed.
WriteResponse(c) ==
    /\ conns[c].pc = "write"
    /\ \/ conns' = [conns EXCEPT ![c].out = Append(@, conns[c].pending[1]),
                                 ![c].pending = <<>>,
                                 ![c].pc = "read_len"]
       \/ /\ conns[c].peer_closed
          /\ conns' = handler_returns(conns, c, "write_error")
    /\ UNCHANGED <<engine_vars, now, bus_vars, env_vars, server_state, ipc_event_rx, main_pc,
                   socket_file, frames_sent, mode_writer, ipc_last>>

\* The task's select! taking the shutdown branch: handle_client is dropped.
ShutdownRecv(c) ==
    /\ select_shutdown_branch(c)
    /\ conns' = handler_returns(conns, c, "shutdown")
    /\ UNCHANGED <<engine_vars, now, bus_vars, env_vars, server_state, ipc_event_rx, main_pc,
                   socket_file, frames_sent, mode_writer, ipc_last>>

\* main: shutdown.wait() completes, the select! ends (dropping Server::run and
\* the event loop) and Server::shutdown sends on shutdown_tx and removes the
\* socket file.
Shutdown ==
    /\ main_pc = "select"
    /\ main_pc' = "stopped"
    /\ socket_file' = FALSE
    /\ UNCHANGED <<engine_vars, now, bus_vars, env_vars, conns, server_state, ipc_event_rx,
                   frames_sent, mode_writer, ipc_last>>

\* Variant: a lagging Receiver continuing with the newest value only.
recv_newest_after_lag(next) ==
    IF tail - next > EventCapacity
    THEN [type |-> "Lagged", n |-> tail - 1 - next, next |-> tail - 1]
    ELSE [type |-> "Ok", event |-> sent[next + 1], next |-> next + 1]

\* Receiver::recv on the event bus for a Receiver that has taken the first
\* next values and has one to take: the channel keeps the newest
\* EventCapacity values; a Receiver further behind gets Lagged(n) and is
\* moved to the oldest value kept.
recv(next) ==
    IF tail - next > EventCapacity
    THEN [type |-> "Lagged", n |-> tail - EventCapacity - next,
          next |-> tail - EventCapacity]
    ELSE [type |-> "Ok", event |-> sent[next + 1], next |-> next + 1]

\* The entry of the history for a receive: the bus position is noted with a
\* Lagged and with the receive that follows one, 0 otherwise.
Noted(r) ==
    [result |-> r,
     tail |-> IF r.type = "Lagged" THEN tail
              ELSE IF received # <<>> /\ received[Len(received)].result.type = "Lagged"
                   THEN tail
                   ELSE 0]

\* main's event loop: ipc_event_rx.recv() and Server::set_state. A receiver
\* more than EventCapacity events behind gets Lagged and continues with the
\* oldest retained event.
SyncEvent ==
    /\ main_pc = "select"
    /\ ipc_event_rx < tail
    /\ LET r == recv(ipc_event_rx)
       IN  /\ ipc_event_rx' = r.next
           /\ received' = Append(received, Noted(r))
           /\ IF r.type = "Lagged"
              THEN UNCHANGED <<server_state, mode_writer>>
              ELSE LET new_state == state_for_event(r.event)
                   IN  IF new_state = None
                       THEN UNCHANGED <<server_state, mode_writer>>
                       ELSE /\ server_state' = set_state(new_state[1])
                            /\ mode_writer' =
                                  [by |-> "set_state", mode |-> mode_writer.mode]
    /\ UNCHANGED <<engine_vars, now, rx_cnt, tail, env_vars, conns, main_pc,
                   socket_file, frames_sent, ipc_last>>

\* The Modifier States the engine is given while the server is explored.
DaemonModifiers ==
    {DefaultModifiers, ControlOnly,
     [control |-> TRUE, option |-> TRUE, command |-> FALSE]}

\* The connections opened while the engine runs.
DaemonConns == {1}

\* StateMachine::run inside main's select!: one handled Modifier State.
EngineCall ==
    /\ main_pc = "select"
    /\ Len(sent) < MaxBusEvents
    /\ \E modifiers \in DaemonModifiers : HandleCall(modifiers)
    /\ UNCHANGED <<now, ipc_vars, rx_cnt, received, env_vars>>

\* The Modifier States that fill the event bus: control pressed and released.
BusModifiers == {DefaultModifiers, ControlOnly}

\* StateMachine::run publishing while main's event loop may be behind.
BusEngineCall ==
    /\ main_pc = "select"
    /\ Len(sent) < MaxPublished
    /\ \E modifiers \in BusModifiers : HandleCall(modifiers)
    /\ UNCHANGED <<now, ipc_vars, rx_cnt, received, env_vars>>

\* The engine publishing and main's event loop receiving.
BusNext == BusEngineCall \/ SyncEvent

BusSpec == Init /\ [][BusNext]_vars

\* handle_modifier_change called with or without a Receiver on the bus.
SubscriberCall ==
    /\ Len(sent) < MaxUnheard
    /\ \E modifiers \in ModifierStates : HandleCall(modifiers)
    /\ UNCHANGED <<now, ipc_vars, rx_cnt, received, env_vars>>

SubscriberNext == SubscriberCall \/ SyncEvent \/ Tick

\* The engine in main (three Receivers, one of them read) and in the unit
\* tests (no Receiver).
SubscriberSpec == (Init \/ TestInit) /\ [][SubscriberNext]_vars

----------------------------------------------------------------------------
(* The key-hook (hotkey/listener.rs) and the engine loop it feeds *)

\* mpsc::channel(32)
HotkeyCapacity == 32

\* The modifier flags of a FlagsChanged event, as the set of keys held.
HookFlags == SUBSET {"control", "command", "shift"}

\* ModifierState::from_flags: the three keys the daemon looks at.
from_flags(flags) ==
    [control |-> "control" \in flags,
     option |-> "option" \in flags,
     command |-> "command" \in flags]

ModifierChanged(modifiers) == [type |-> "ModifierChanged", modifiers |-> modifiers]

\* Variant: every FlagsChanged forwarded.
should_forward_always(new_state) == TRUE

\* run_event_loop: new_state != last_state.
should_forward(new_state) == new_state # last_state

\* Variant: a closed channel ending the loop with events still queued.
hotkey_recv_closed_first ==
    IF ~hotkey_open THEN [kind |-> "none"]
    ELSE IF hotkey_ch # <<>> THEN [kind |-> "some", event |-> Head(hotkey_ch)]
    ELSE [kind |-> "pending"]

\* hotkey_rx.recv(): the oldest queued event; None once every Sender is
\* gone and the queue is empty; pending otherwise.
hotkey_recv ==
    IF hotkey_ch # <<>> THEN [kind |-> "some", event |-> Head(hotkey_ch)]
    ELSE IF ~hotkey_open THEN [kind |-> "none"]
    ELSE [kind |-> "pending"]

\* The listener thread: run_event_loop creates and enables the event tap, or
\* fails to (no Accessibility permission); main goes on either way.
HotkeyStart ==
    /\ tap = "starting"
    /\ tap' \in {"enabled", "unavailable"}
    /\ UNCHANGED <<engine_vars, now, ipc_vars, bus_vars, last_state, hotkey_ch,
                   hotkey_open, run_pc, forwarded, handled, codec, socket_vars>>

\* macOS disables the tap: the callback logs it and nothing else follows.
TapDisable ==
    /\ tap = "enabled"
    /\ tap' = "disabled"
    /\ UNCHANGED <<engine_vars, now, ipc_vars, bus_vars, last_state, hotkey_ch,
                   hotkey_open, run_pc, forwarded, handled, codec, socket_vars>>

\* A FlagsChanged event reaches run_event_loop: blocking_send waits while the
\* channel is full and fails once the Receiver is gone, and last_state is
\* updated only after a successful send.
FlagsChanged(flags) ==
    /\ tap = "enabled"
    /\ hotkey_open
    /\ Len(forwarded) < MaxForwarded
    /\ LET new_state == from_flags(flags)
       IN  IF should_forward(new_state) /\ run_pc = "running"
           THEN /\ Len(hotkey_ch) < HotkeyCapacity
                /\ hotkey_ch' = Append(hotkey_ch, ModifierChanged(new_state))
                /\ last_state' = new_state
                /\ forwarded' = Append(forwarded, new_state)
           ELSE UNCHANGED <<hotkey_ch, last_state, forwarded>>
    /\ UNCHANGED <<engine_vars, now, ipc_vars, bus_vars, tap, hotkey_open, run_pc,
                   handled, codec, socket_vars>>

\* Every Sender of the hotkey channel is dropped.
CloseHotkey ==
    /\ hotkey_open
    /\ hotkey_open' = FALSE
    /\ UNCHANGED <<engine_vars, now, ipc_vars, bus_vars, tap, last_state, hotkey_ch,
                   run_pc, forwarded, handled, codec, socket_vars>>

\* StateMachine::run: one event received and handled.
EngineRecv ==
    /\ run_pc = "running"
    /\ main_pc = "select"
    /\ hotkey_recv.kind = "some"
    /\ HandleCall(hotkey_recv.event.modifiers)
    /\ hotkey_ch' = Tail(hotkey_ch)
    /\ handled' = Append(handled, hotkey_recv.event.modifiers)
    /\ UNCHANGED <<now, ipc_vars, rx_cnt, received, tap, last_state, hotkey_open,
                   run_pc, forwarded, codec, socket_vars>>

\* StateMachine::run returns on None; main's select! ends with it and main
\* goes on to hotkey_listener.stop() and Server::shutdown.
EngineStop ==
    /\ run_pc = "running"
    /\ main_pc = "select"
    /\ hotkey_recv.kind = "none"
    /\ run_pc' = "stopped"
    /\ tap' = "stopped"
    /\ main_pc' = "stopped"
    /\ socket_file' = FALSE
    /\ UNCHANGED <<engine_vars, now, conns, server_state, ipc_event_rx, frames_sent,
                   mode_writer, ipc_last, bus_vars, last_state, hotkey_ch,
                   hotkey_open, forwarded, handled, codec, socket_vars>>

\* The key-hook, the hotkey channel and the engine loop.
HotkeyNext ==
    \/ HotkeyStart
    \/ TapDisable
    \/ \E flags \in HookFlags : FlagsChanged(flags)
    \/ CloseHotkey
    \/ EngineRecv
    \/ EngineStop

HotkeySpec == Init /\ [][HotkeyNext]_vars

\* The daemon with its key-hook starting, failing or being disabled, while
\* a client asks for the status.
DegradedNext ==
    \/ HotkeyStart
    \/ TapDisable
    \/ \E flags \in HookFlags : FlagsChanged(flags)
    \/ EngineRecv
    \/ SyncEvent
    \/ \E c \in DaemonConns :
          \/ Accept(c)
          \/ ClientSend(c, Frame(ShortLen, GetStatus))
          \/ ReadLen(c)
          \/ ReadBody(c)
          \/ WriteResponse(c)

DegradedSpec == Init /\ [][DegradedNext]_vars

----------------------------------------------------------------------------
(* The tagged wire encoding (serde derive on ipc/protocol.rs and events) *)

\* A value in memory is a record of its enum (family), its variant and the
\* variant's fields; a JSON object on the wire is the sequence of its
\* members <<key, token>> in the order they were written, so an object with
\* a repeated key can be told from one without.

AudioCaptureStarted == [type |-> "AudioCaptureStarted"]

AudioCaptureStopped == [type |-> "AudioCaptureStopped"]

WireNums == 0..MaxWireNum

WireStrings == {"0.1.0", "invalid_request"}

\* enum StateEvent, every variant
StateEvents ==
    {DictationStarted, IntelligentStarted, AgentModeEntered,
     AudioCaptureStarted, AudioCaptureStopped}
    \cup {DictationComplete(n) : n \in WireNums}
    \cup {IntelligentRequestComplete(n) : n \in WireNums}
    \cup {AgentModeExited(n) : n \in WireNums}

\* struct DaemonStatus
DaemonStatuses ==
    [version : {"0.1.0"}, mode : Modes, hotkey_registered : BOOLEAN,
     uptime_secs : WireNums]

\* enum Request, every variant
RequestValues ==
    {[family |-> "Request", variant |-> v] : v \in {"GetStatus", "Ping", "Subscribe"}}
    \cup {[family |-> "Request", variant |-> "SetMode", mode |-> m] : m \in Modes}

\* enum Response, every variant
ResponseValues ==
    {[family |-> "Response", variant |-> "Status", status |-> st] : st \in DaemonStatuses}
    \cup {[family |-> "Response", variant |-> "ModeChange", mode |-> m, active |-> a] :
             m \in Modes, a \in BOOLEAN}
    \cup {[family |-> "Response", variant |-> v] : v \in {"Pong", "Subscribed"}}
    \cup {[family |-> "Response", variant |-> "Error", code |-> c, message |-> c] :
             c \in WireStrings}

\* enum Notification, every variant
NotificationValues ==
    {[family |-> "Notification", variant |-> "ModeChanged", mode |-> m, previous |-> p] :
        m \in Modes, p \in Modes}
    \cup {[family |-> "Notification", variant |-> "StateEvent", event |-> e] :
             e \in StateEvents}

WireValues == RequestValues \cup ResponseValues \cup NotificationValues

\* The variants of each enum, in declaration order.
Variants(family) ==
    CASE family = "Request" -> {"GetStatus", "SetMode", "Ping", "Subscribe"}
      [] family = "Response" -> {"Status", "ModeChange", "Pong", "Subscribed", "Error"}
      [] family = "Notification" -> {"ModeChanged", "StateEvent"}
      [] family = "StateEvent" ->
            {"DictationStarted", "DictationComplete", "IntelligentStarted",
             "IntelligentRequestComplete", "AgentModeEntered", "AgentModeExited",
             "AudioCaptureStarted", "AudioCaptureStopped"}
      [] family = "Mode" -> Modes

\* rename_all = "snake_case"
snake_case(name) ==
    CASE name = "GetStatus" -> "get_status"
      [] name = "SetMode" -> "set_mode"
      [] name = "Ping" -> "ping"
      [] name = "Subscribe" -> "subscribe"
      [] name = "Status" -> "status"
      [] name = "ModeChange" -> "mode_change"
      [] name = "Pong" -> "pong"
      [] name = "Subscribed" -> "subscribed"
      [] name = "Error" -> "error"
      [] name = "ModeChanged" -> "mode_changed"
      [] name = "StateEvent" -> "state_event"
      [] name = "DictationStarted" -> "dictation_started"
      [] name = "DictationComplete" -> "dictation_complete"
      [] name = "IntelligentStarted" -> "intelligent_started"
      [] name = "IntelligentRequestComplete" -> "intelligent_request_complete"
      [] name = "AgentModeEntered" -> "agent_mode_entered"
      [] name = "AgentModeExited" -> "agent_mode_exited"
      [] name = "AudioCaptureStarted" -> "audio_capture_started"
      [] name = "AudioCaptureStopped" -> "audio_capture_stopped"
      [] name = "Idle" -> "idle"
      [] name = "Dictation" -> "dictation"
      [] name = "Intelligent" -> "intelligent"
      [] name = "Agent" -> "agent"

\* The JSON tokens of a string, a bool and a u64 (the strings here need no
\* escaping; the quotation mark is written ').
json_string(str) == "'" \o str \o "'"

json_bool(b) == IF b THEN "true" ELSE "false"

json_u64(n) == ToString(n)

\* The values a token stands for, per type: one, or none if it does not parse.
string_of(token) == {str \in WireStrings : json_string(str) = token}

bool_of(token) == {b \in BOOLEAN : json_bool(b) = token}

u64_of(token) == {n \in WireNums : json_u64(n) = token}

variant_of(family, token) ==
    {v \in Variants(family) : json_string(snake_case(v)) = token}

mode_of(token) == variant_of("Mode", token)

\* The values a token stands for as a field of the given type.
parse(type, token) ==
    CASE type = "String" -> string_of(token)
      [] type = "bool" -> bool_of(token)
      [] type = "u64" -> u64_of(token)
      [] type = "Mode" -> mode_of(token)

\* tag = "type": the member carrying the variant's name.
tagged(variant) == <<"type", json_string(snake_case(variant))>>

\* Serialize for StateEvent (internally tagged).
ser_StateEvent(e) ==
    <<tagged(e.type)>>
    \o (IF "duration_ms" \in DOMAIN e
        THEN << <<"duration_ms", json_u64(e.duration_ms)>> >>
        ELSE <<>>)

\* Serialize for DaemonStatus.
ser_DaemonStatus(st) ==
    << <<"version", json_string(st.version)>>,
       <<"mode", json_string(snake_case(st.mode))>>,
       <<"hotkey_registered", json_bool(st.hotkey_registered)>>,
       <<"uptime_secs", json_u64(st.uptime_secs)>> >>

\* serde_json::to_string of a Request, Response or Notification: the tag
\* first, then the variant's fields; a newtype variant writes the members of
\* the value it wraps after the tag, the wrapped enum's own tag included.
to_string(v) ==
    <<tagged(v.variant)>>
    \o (CASE v.variant = "SetMode" ->
                << <<"mode", json_string(snake_case(v.mode))>> >>
          [] v.variant = "Status" -> ser_DaemonStatus(v.status)
          [] v.variant = "ModeChange" ->
                << <<"mode", json_string(snake_case(v.mode))>>,
                   <<"active", json_bool(v.active)>> >>
          [] v.variant = "Error" ->
                << <<"code", json_string(v.code)>>,
                   <<"message", json_string(v.message)>> >>
          [] v.variant = "ModeChanged" ->
                << <<"mode", json_string(snake_case(v.mode))>>,
                   <<"previous", json_string(snake_case(v.previous))>> >>
          [] v.variant = "StateEvent" -> ser_StateEvent(v.event)
          [] OTHER -> <<>>)

Ok(v) == [ok |-> TRUE, value |-> v]

Err(error) == [ok |-> FALSE, error |-> error]

\* The members of an object with the given key.
members(object, key) == {i \in 1..Len(object) : object[i][1] = key}

\* A struct's field: its key must occur once and its token must parse.
field_ok(object, key, type) ==
    /\ Cardinality(members(object, key)) = 1
    /\ parse(type, object[CHOOSE i \in members(object, key) : TRUE][2]) # {}

field(object, key, type) ==
    CHOOSE x \in parse(type, object[CHOOSE i \in members(object, key) : TRUE][2]) : TRUE

\* The object without its first member keyed by the tag.
without_tag(object) ==
    LET i == CHOOSE k \in members(object, "type") : TRUE
    IN  SubSeq(object, 1, i - 1) \o SubSeq(object, i + 1, Len(object))

\* The internally tagged reader: the tag is looked up among the members; a
\* second member keyed by the tag is a duplicate field.
tag_check(object) ==
    IF members(object, "type") = {} THEN Err("missing field type")
    ELSE IF Cardinality(members(object, "type")) > 1 THEN Err("duplicate field type")
    ELSE Ok(object[CHOOSE i \in members(object, "type") : TRUE][2])

\* Deserialize for StateEvent.
de_StateEvent(object) ==
    LET tag == tag_check(object)
    IN  IF ~tag.ok THEN tag
        ELSE IF variant_of("StateEvent", tag.value) = {} THEN Err("unknown variant")
        ELSE LET variant == CHOOSE v \in variant_of("StateEvent", tag.value) : TRUE
             IN  IF variant \in {"DictationComplete", "IntelligentRequestComplete",
                                 "AgentModeExited"}
                 THEN IF field_ok(object, "duration_ms", "u64")
                      THEN Ok([type |-> variant,
                               duration_ms |-> field(object, "duration_ms", "u64")])
                      ELSE Err("invalid field duration_ms")
                 ELSE Ok([type |-> variant])

\* Deserialize for DaemonStatus.
de_DaemonStatus(object) ==
    IF /\ field_ok(object, "version", "String")
       /\ field_ok(object, "mode", "Mode")
       /\ field_ok(object, "hotkey_registered", "bool")
       /\ field_ok(object, "uptime_secs", "u64")
    THEN Ok([version |-> field(object, "version", "String"),
             mode |-> field(object, "mode", "Mode"),
             hotkey_registered |-> field(object, "hotkey_registered", "bool"),
             uptime_secs |-> field(object, "uptime_secs", "u64")])
    ELSE Err("invalid DaemonStatus")

\* The fields of one variant read from the members left after the tag.
de_variant(family, variant, content) ==
    CASE variant = "SetMode" ->
            IF field_ok(content, "mode", "Mode")
            THEN Ok([family |-> family, variant |-> variant,
                     mode |-> field(content, "mode", "Mode")])
            ELSE Err("invalid field mode")
      [] variant = "Status" ->
            LET st == de_DaemonStatus(content)
            IN  IF st.ok
                THEN Ok([family |-> family, variant |-> variant, status |-> st.value])
                ELSE st
      [] variant = "ModeChange" ->
            IF field_ok(content, "mode", "Mode") /\ field_ok(content, "active", "bool")
            THEN Ok([family |-> family, variant |-> variant,
                     mode |-> field(content, "mode", "Mode"),
                     active |-> field(content, "active", "bool")])
            ELSE Err("invalid ModeChange")
      [] variant = "Error" ->
            IF field_ok(content, "code", "String") /\ field_ok(content, "message", "String")
            THEN Ok([family |-> family, variant |-> variant,
                     code |-> field(content, "code", "String"),
                     message |-> field(content, "message", "String")])
            ELSE Err("invalid Error")
      [] variant = "ModeChanged" ->
            IF field_ok(content, "mode", "Mode") /\ field_ok(content, "previous", "Mode")
            THEN Ok([family |-> family, variant |-> variant,
                     mode |-> field(content, "mode", "Mode"),
                     previous |-> field(content, "previous", "Mode")])
            ELSE Err("invalid ModeChanged")
      [] variant = "StateEvent" ->
            LET e == de_StateEvent(content)
            IN  IF e.ok
                THEN Ok([family |-> family, variant |-> variant, event |-> e.value])
                ELSE e
      [] OTHER -> Ok([family |-> family, variant |-> variant])

\* serde_json::from_str for Request, Response and Notification.
from_str(family, object) ==
    LET tag == tag_check(object)
    IN  IF ~tag.ok THEN tag
        ELSE IF variant_of(family, tag.value) = {} THEN Err("unknown variant")
        ELSE de_variant(family,
                        CHOOSE v \in variant_of(family, tag.value) : TRUE,
                        without_tag(object))

codec_rest == <<engine_vars, now, ipc_vars, bus_vars, hotkey_vars, socket_vars>>

\* A value to send.
CodecChoose(v) ==
    /\ codec.pc = "idle"
    /\ codec' = [codec EXCEPT !.pc = "chosen", !.value = v]
    /\ UNCHANGED codec_rest

\* The sender encodes it.
CodecEncode ==
    /\ codec.pc = "chosen"
    /\ codec' = [codec EXCEPT !.pc = "encoded", !.wire = to_string(codec.value)]
    /\ UNCHANGED codec_rest

\* The receiver decodes what was written, as the type that was sent.
CodecDecode ==
    /\ codec.pc = "encoded"
    /\ codec' = [codec EXCEPT !.pc = "decoded",
                              !.decoded = from_str(codec.value.family, codec.wire)]
    /\ UNCHANGED codec_rest

CodecNext ==
    \/ \E v \in WireValues : CodecChoose(v)
    \/ CodecEncode
    \/ CodecDecode

CodecSpec == Init /\ [][CodecNext]_vars

----------------------------------------------------------------------------
(* Servers started and shut down on one socket path (ipc/server.rs) *)

socket_rest == <<engine_vars, now, ipc_vars, bus_vars, hotkey_vars, codec>>

\* Server::new: an existing file at the path is removed, whoever bound it,
\* and the new listener's socket file takes its place.
ServerNew(s) ==
    /\ servers[s] = "none"
    /\ servers' = [servers EXCEPT ![s] = "live"]
    /\ path_file' = s
    /\ UNCHANGED socket_rest

\* Server::shutdown: the file at the path is removed if one exists.
ServerShutdown(s) ==
    /\ servers[s] = "live"
    /\ servers' = [servers EXCEPT ![s] = "down"]
    /\ path_file' = 0
    /\ UNCHANGED socket_rest

\* A server's process ends without Server::shutdown: its file stays.
ServerKill(s) ==
    /\ servers[s] = "live"
    /\ servers' = [servers EXCEPT ![s] = "killed"]
    /\ UNCHANGED <<path_file, socket_rest>>

SocketNext ==
    \E s \in Servers :
        \/ ServerNew(s)
        \/ ServerShutdown(s)
        \/ ServerKill(s)

SocketSpec == Init /\ [][SocketNext]_vars

\* The server and its clients, the engine idle.
IpcNext ==
    \/ \E c \in Conns :
          \/ Accept(c)
          \/ \E frame \in Frames : ClientSend(c, frame)
          \/ ClientClose(c)
          \/ ReadLen(c)
          \/ ReadBody(c)
          \/ WriteResponse(c)
          \/ ShutdownRecv(c)
    \/ Shutdown

IpcSpec == Init /\ [][IpcNext]_vars

\* The frames written while shutdown is explored: a request, and a prefix
\* whose payload never arrives.
ShutdownFrames == {Frame(ShortLen, Ping), Frame(ShortLen, Missing)}

\* The server and its clients around a shutdown.
ShutdownNext ==
    \/ \E c \in Conns :
          \/ Accept(c)
          \/ \E frame \in ShutdownFrames : ClientSend(c, frame)
          \/ ClientClose(c)
          \/ ReadLen(c)
          \/ ReadBody(c)
          \/ WriteResponse(c)
          \/ ShutdownRecv(c)
    \/ Shutdown

\* The runtime polls a task whose shutdown receiver has been woken.
FairIpcSpec ==
    Init /\ [][ShutdownNext]_vars /\ \A c \in Conns : WF_vars(ShutdownRecv(c))

\* The engine, main's event loop and the server with clients that write
\* well-formed requests.
DaemonNext ==
    \/ EngineCall
    \/ SyncEvent
    \/ \E c \in DaemonConns :
          \/ Accept(c)
          \/ \E frame \in RequestFrames : ClientSend(c, frame)
          \/ ReadLen(c)
          \/ ReadBody(c)
          \/ WriteResponse(c)

DaemonSpec == Init /\ [][DaemonNext]_vars


----------------------------------------------------------------------------
(* Vocabulary of the properties about single calls *)

FromIdle == last_call.called /\ last_call.old_state = "Idle"

FromDictation == last_call.called /\ last_call.old_state = "DictationActive"

FromIntelligent == last_call.called /\ last_call.old_state = "IntelligentActive"

FromAgent == last_call.called /\ last_call.old_state = "AgentActive"

----------------------------------------------------------------------------
(* C1 *)

----------------------------------------------------------------------------
(* C2 *)

\* C2: in Agent, a call whose Modifier State is not a rising edge of
\* control+command leaves the mode Agent and publishes nothing, and Agent
\* is left only for Idle and only on a rising edge of control+command.
C2_StickyToggle ==
    FromAgent =>
        /\ ~RisingEdge(last_call.preceding, last_call.modifiers)
              => (state = "AgentActive" /\ last_call.emitted = <<>>)
        /\ state # "AgentActive"
              => (state = "Idle"
                    /\ RisingEdge(last_call.preceding, last_call.modifiers))

\* Agent, then every key released: still Agent.
C2_Witness ==
    /\ FromAgent
    /\ last_call.modifiers = DefaultModifiers
    /\ state = "AgentActive"
    /\ last_call.emitted = <<>>

----------------------------------------------------------------------------
(* C3 *)

\* C3 as stated: a call given the Modifier State of the call before it
\* changes no mode and publishes no event.
C3_AsStated ==
    (last_call.called /\ last_call.after_call
        /\ last_call.modifiers = last_call.preceding)
        => (state = last_call.old_state /\ last_call.emitted = <<>>)

----------------------------------------------------------------------------
(* C4 *)

----------------------------------------------------------------------------
(* C5 *)

\* C5: from Intelligent a call moves to Idle exactly when control or option
\* is released, and otherwise the mode stays Intelligent.
C5_IntelligentRules ==
    FromIntelligent =>
        /\ state = "Idle"
              <=> (~last_call.modifiers.control \/ ~last_call.modifiers.option)
        /\ state # "Idle" => state = "IntelligentActive"

\* Intelligent, then command added to control+option: still Intelligent.
C5_Witness ==
    /\ FromIntelligent
    /\ last_call.modifiers = AllThree
    /\ state = "IntelligentActive"

----------------------------------------------------------------------------
(* C6 *)

\* C6: a call toggles Agent (Idle to Agent or Agent to Idle) only when
\* control and command are both held in its Modifier State and at least one
\* of them was not held in the Modifier State handled before it; and while
\* control and command stay held from call to call at most one toggle occurs.
C6_EdgeMemory ==
    /\ (last_call.called /\ IsToggle(last_call.old_state, state))
          => RisingEdge(last_call.preceding, last_call.modifiers)
    /\ toggles_in_hold <= 1

\* Control and command held over two calls in a row (option pressed in
\* between), one toggle at the start of the hold and none since.
C6_Witness ==
    /\ last_call.called /\ last_call.after_call
    /\ BothHeld(last_call.preceding) /\ BothHeld(last_call.modifiers)
    /\ last_call.preceding.option /\ ~last_call.modifiers.option
    /\ toggles_in_hold = 1
    /\ state = last_call.old_state

----------------------------------------------------------------------------
(* C7 *)

----------------------------------------------------------------------------
(* C8 *)

\* C8: a call that leaves the mode unchanged publishes nothing; a call that
\* changes it from old to new publishes the exit event of old (none for
\* Idle) and then the entry event of new (none for Idle), one or two events.
C8_EventsPerCall ==
    last_call.called =>
        IF state = last_call.old_state
        THEN last_call.emitted = <<>>
        ELSE /\ Kinds(last_call.emitted)
                   = ExitKind(last_call.old_state) \o EntryKind(state)
             /\ Len(last_call.emitted) \in {1, 2}

\* Dictation upgraded to Intelligent: DictationComplete, then IntelligentStarted.
C8_Witness ==
    /\ FromDictation
    /\ state = "IntelligentActive"
    /\ Kinds(last_call.emitted) = <<"DictationComplete", "IntelligentStarted">>

----------------------------------------------------------------------------
(* C9 *)

ExitOfEntry(k) ==
    CASE k = "DictationStarted" -> "DictationComplete"
      [] k = "IntelligentStarted" -> "IntelligentRequestComplete"
      [] k = "AgentModeEntered" -> "AgentModeExited"

ModeOfEntry(k) ==
    CASE k = "DictationStarted" -> "DictationActive"
      [] k = "IntelligentStarted" -> "IntelligentActive"
      [] k = "AgentModeEntered" -> "AgentActive"

Count(kinds, S) == Cardinality({i \in 1..Len(kinds) : kinds[i] \in S})

\* C9: the published sequence is well-bracketed: every entry event is
\* followed next by the exit event of the same mode, every exit event is
\* preceded by its matching entry, and entries minus exits is 1 exactly
\* when the mode is not Idle (the open entry being that of the current
\* mode) and 0 when it is Idle.
C9_WellBracketed ==
    LET k == Kinds(sent)
        n == Len(k)
    IN  /\ \A i \in 1..n :
              /\ k[i] \in EntryKinds \cup ExitKinds
              /\ (k[i] \in EntryKinds /\ i < n) => k[i + 1] = ExitOfEntry(k[i])
              /\ k[i] \in ExitKinds
                    => (i > 1 /\ k[i - 1] \in EntryKinds
                          /\ k[i] = ExitOfEntry(k[i - 1]))
        /\ Count(k, EntryKinds) - Count(k, ExitKinds)
              = (IF state = "Idle" THEN 0 ELSE 1)
        /\ state # "Idle" => (n > 0 /\ k[n] \in EntryKinds /\ ModeOfEntry(k[n]) = state)

\* Two modes entered and left, a third one open.
C9_Witness ==
    /\ Len(sent) = 5
    /\ state = "AgentActive"
    /\ Kinds(sent)[1] = "DictationStarted"
    /\ Kinds(sent)[3] = "IntelligentStarted"

----------------------------------------------------------------------------
(* C10 *)

\* C10: state_entered_at is Some exactly when the mode is not Idle.
C10_EnteredAtIffActive ==
    (state_entered_at # None) <=> (state # "Idle")

\* Back in Idle after a non-Idle mode, the entry instant cleared.
C10_Witness ==
    /\ last_call.called
    /\ last_call.old_state # "Idle"
    /\ state = "Idle"
    /\ state_entered_at = None
    /\ now > 0

----------------------------------------------------------------------------
(* C11 *)

----------------------------------------------------------------------------
(* C12 *)

\* C12: every exit event carries a duration that is not negative and equals
\* the clock difference between the entry event of that mode (the event
\* published just before it) and the exit; a transition out of Idle
\* computes 0 and publishes no event that carries a duration.
C12_DwellDuration ==
    /\ \A i \in 1..Len(sent) :
          sent[i].type \in ExitKinds =>
              /\ sent[i].duration_ms >= 0
              /\ i > 1
              /\ sent[i - 1].type \in EntryKinds
              /\ sent[i].duration_ms = sent_at[i] - sent_at[i - 1]
    /\ (FromIdle /\ state # "Idle") =>
          /\ last_call.duration_ms = 0
          /\ \A i \in 1..Len(last_call.emitted) :
                "duration_ms" \notin DOMAIN last_call.emitted[i]

\* A mode entered at clock 1 and left at clock 2: duration 1.
C12_Witness ==
    \E i \in 2..Len(sent) :
        /\ sent[i].type \in ExitKinds
        /\ sent_at[i - 1] = 1
        /\ sent_at[i] = 2
        /\ sent[i].duration_ms = 1

----------------------------------------------------------------------------

----------------------------------------------------------------------------
(* C31 *)

\* The mode changes of one step: from Idle into each active mode, from
\* Dictation up to Intelligent, and from each active mode back to Idle.
ModeSteps ==
    {<<"Idle", "DictationActive">>, <<"Idle", "IntelligentActive">>,
     <<"Idle", "AgentActive">>, <<"DictationActive", "IntelligentActive">>,
     <<"DictationActive", "Idle">>, <<"IntelligentActive", "Idle">>,
     <<"AgentActive", "Idle">>}

\* C31: whenever the engine's mode changes in a step, the change is one of
\* Idle->Dictation, Idle->Intelligent, Idle->Agent, Dictation->Intelligent,
\* Dictation->Idle, Intelligent->Idle and Agent->Idle; it never steps
\* Intelligent->Dictation, Dictation->Agent, Intelligent->Agent, or from
\* Agent to Dictation or Intelligent.
C31_ModeSteps == [][state' # state => <<state, state'>> \in ModeSteps]_vars

\* Control was held in Dictation, option was added, and the engine stepped
\* from Dictation to Intelligent, the one change between two active modes.
C31_Witness ==
    /\ last_call.called
    /\ last_call.old_state = "DictationActive"
    /\ last_call.preceding = ControlOnly
    /\ last_call.modifiers = [control |-> TRUE, option |-> TRUE, command |-> FALSE]
    /\ state = "IntelligentActive"
    /\ Len(last_call.emitted) = 2

----------------------------------------------------------------------------
(* Claims about the IPC server *)

\* C13 (as stated): a connection that sent Subscribe and received Subscribed
\* receives a mode_changed notification after the engine then goes from Idle
\* to Dictation, without sending a further request. Read at quiescence: the
\* event loop has drained the bus and the handler waits for a frame on an
\* empty stream, so nothing more can reach the socket.
C13_AsStated ==
    \A c \in Conns :
        ( /\ conns[c].is_subscribed
          /\ \E j \in 1..Len(conns[c].out) : conns[c].out[j] = Subscribed
          /\ \E i \in 1..Len(sent) :
                /\ i > conns[c].subscribed_at
                /\ sent[i].type = "DictationStarted"
          /\ ipc_event_rx = Len(sent)
          /\ conns[c].pc = "read_len"
          /\ conns[c].inbox = <<>>
          /\ main_pc = "select" )
        => \E j \in 1..Len(conns[c].out) : conns[c].out[j].type = "mode_changed"

\* C14: a length prefix above 1,048,576 ends the connection with its payload
\* unread and no response written for it; a prefix of 1,048,576 or less is
\* accepted and its payload read.
C14_SizeLimit ==
    \A c \in Conns :
        conns[c].prefixes_read > 0 =>
            LET len == u32_from_le_bytes(conns[c].len_buf)
            IN  /\ len > 1048576 =>
                    /\ conns[c].pc = "stopped"
                    /\ conns[c].ended = "too_large"
                    /\ conns[c].payloads_read = conns[c].prefixes_read - 1
                    /\ conns[c].inbox # <<>>
                    /\ Head(conns[c].inbox).len_buf = conns[c].len_buf
                    /\ Len(conns[c].out) = Len(conns[c].reqs)
                    /\ Len(conns[c].reqs) = conns[c].payloads_read
                    /\ conns[c].pending = <<>>
                /\ len <= 1048576 =>
                    /\ conns[c].ended # "too_large"
                    /\ \/ conns[c].payloads_read = conns[c].prefixes_read
                       \/ /\ conns[c].payloads_read = conns[c].prefixes_read - 1
                          /\ \/ conns[c].pc = "read_body"
                             \/ conns[c].ended \in {"read_error", "shutdown"}

\* One connection was answered for a frame of exactly 1 MiB, another was
\* ended by a prefix of 2,000,000.
C14_Witness ==
    \E c, d \in Conns :
        /\ conns[c].len_buf = MaxLenBuf
        /\ conns[c].payloads_read = 1
        /\ Len(conns[c].out) = 1
        /\ conns[d].len_buf = TwoMillionLenBuf
        /\ u32_from_le_bytes(conns[d].len_buf) = 2000000
        /\ conns[d].ended = "too_large"

\* C15: an undecodable payload terminates its connection: no response for
\* the frame, no later frame of the connection processed, and the step that
\* ends the handler leaves the status snapshot as it was.
C15_DecodeFailure ==
    /\ [](\A c \in Conns :
            conns[c].msg_buf = Undecodable =>
                /\ conns[c].pc = "stopped"
                /\ conns[c].ended = "parse_error"
                /\ conns[c].pending = <<>>
                /\ Len(conns[c].out) = Len(conns[c].reqs)
                /\ Len(conns[c].reqs) = conns[c].payloads_read - 1
                /\ conns[c].prefixes_read = conns[c].payloads_read)
    /\ [][\A c \in Conns :
            (conns[c].msg_buf # Undecodable /\ conns'[c].msg_buf = Undecodable)
                => server_state' = server_state]_vars

\* A handler ended by an undecodable payload, with a later well-formed
\* frame of its connection left unread.
C15_Witness ==
    \E c \in Conns :
        /\ conns[c].ended = "parse_error"
        /\ conns[c].msg_buf = Undecodable
        /\ conns[c].inbox # <<>>
        /\ Head(conns[c].inbox).msg \in Requests
        /\ conns[c].out = <<>>

\* The ways a protocol error ends a handler.
ProtocolErrors == {"too_large", "parse_error", "read_error"}

\* C16: a protocol error on one connection ends only that connection: the
\* step changes no other connection and not the accept loop, and afterwards
\* every other connection's next response can be produced and written and a
\* new connection can be accepted.
C16_Isolation ==
    /\ [][\A c \in Conns :
            ( /\ conns[c].pc \in InFlight
              /\ conns'[c].pc = "stopped"
              /\ conns'[c].ended \in ProtocolErrors )
            => /\ \A d \in Conns \ {c} : conns'[d] = conns[d]
               /\ main_pc' = main_pc
               /\ socket_file' = socket_file
               /\ server_state' = server_state]_vars
    /\ [](\A c \in Conns :
            (conns[c].ended \in ProtocolErrors /\ main_pc = "select") =>
                \A d \in Conns \ {c} :
                    /\ conns[d].pc = "none" => ENABLED Accept(d)
                    /\ conns[d].pc = "write" => ENABLED WriteResponse(d)
                    /\ ( /\ conns[d].pc = "read_len"
                         /\ conns[d].inbox # <<>> ) => ENABLED ReadLen(d)
                    /\ ( /\ conns[d].pc = "read_body"
                         /\ Head(conns[d].inbox).msg \in Requests )
                       => ENABLED ReadBody(d))

\* One connection was ended by a protocol error while the other one, with a
\* response already received, is being answered again.
C16_Witness ==
    \E c, d \in Conns :
        /\ conns[c].ended \in ProtocolErrors
        /\ conns[d].pc = "write"
        /\ main_pc = "select"

\* The response kind the protocol pairs with each request kind.
ResponseKind(request) ==
    CASE request.type = "ping" -> "pong"
      [] request.type = "subscribe" -> "subscribed"
      [] request.type = "get_status" -> "status"
      [] request.type = "set_mode" -> "mode_change"

\* C17: on each connection the responses written are, in order, one per
\* decoded request and of the kind paired with it; at most the latest
\* request is unanswered, and only while its response is being written (or
\* the handler was stopped there): no frame is read before it.
C17_Paired ==
    \A c \in Conns :
        /\ Len(conns[c].out) <= Len(conns[c].reqs)
        /\ Len(conns[c].reqs) <= Len(conns[c].out) + 1
        /\ \A i \in 1..Len(conns[c].out) :
              conns[c].out[i].type = ResponseKind(conns[c].reqs[i])
        /\ conns[c].pc \in {"read_len", "read_body"} =>
              /\ Len(conns[c].out) = Len(conns[c].reqs)
              /\ conns[c].pending = <<>>
        /\ conns[c].pc = "write" =>
              /\ Len(conns[c].reqs) = Len(conns[c].out) + 1
              /\ Len(conns[c].pending) = 1
              /\ conns[c].pending[1].type =
                    ResponseKind(conns[c].reqs[Len(conns[c].reqs)])
        /\ Len(conns[c].reqs) = Len(conns[c].out) + 1 =>
              \/ conns[c].pc = "write"
              \/ conns[c].ended \in {"write_error", "shutdown"}
        /\ conns[c].payloads_read <= conns[c].prefixes_read
        /\ conns[c].prefixes_read <= Len(conns[c].out) + 1

\* A connection that was answered Pong and then Subscribed, in that order.
C17_Witness ==
    \E c \in Conns :
        /\ conns[c].reqs = <<Ping, Subscribe>>
        /\ Len(conns[c].out) = 2
        /\ conns[c].out[1].type = "pong"
        /\ conns[c].out[2].type = "subscribed"

\* C18: SetMode{mode} leaves the snapshot's mode at the requested mode and
\* answers ModeChange{mode, active} with active exactly when the mode is not
\* Idle; while that SetMode is the latest writer of the mode the snapshot
\* keeps it, and a GetStatus served then reports it.
C18_SetMode ==
    /\ (ipc_last.called /\ ipc_last.request.type = "set_mode") =>
          /\ ipc_last.response.type = "mode_change"
          /\ ipc_last.response.mode = ipc_last.request.mode
          /\ ipc_last.response.active = (ipc_last.request.mode # "Idle")
          /\ ipc_last.mode_after = ipc_last.request.mode
    /\ mode_writer.by = "set_mode" =>
          server_state.status.mode = mode_writer.mode
    /\ ( /\ ipc_last.called
         /\ ipc_last.request.type = "get_status"
         /\ ipc_last.writer.by = "set_mode" ) =>
          /\ ipc_last.response.type = "status"
          /\ ipc_last.response.mode = ipc_last.writer.mode

\* A GetStatus served after a SetMode to an active mode that followed an
\* engine event.
C18_Witness ==
    /\ ipc_last.called
    /\ ipc_last.request.type = "get_status"
    /\ ipc_last.writer.by = "set_mode"
    /\ ipc_last.writer.mode # "Idle"
    /\ ipc_last.response.mode = ipc_last.writer.mode
    /\ Len(sent) > 0
    /\ ipc_event_rx > 0

\* C19 (as stated): once the event loop has drained the bus the snapshot's
\* mode is the engine's mode.
C19_AsStated ==
    ipc_event_rx = Len(sent) =>
        server_state.status.mode = mode_from_state(state)

\* C19: once the event loop has drained the bus the snapshot's mode is the
\* engine's mode, unless a client's SetMode was served after the last event
\* the loop applied.
C19_SnapshotFollowsEngine ==
    (ipc_event_rx = Len(sent) /\ mode_writer.by # "set_mode") =>
        /\ server_state.status.mode = mode_from_state(state)
        /\ server_state.current_state = state

\* The bus drained after the engine went to Dictation and back to Idle, a
\* client's SetMode having been overwritten in between.
C19_Witness ==
    /\ Len(sent) = 2
    /\ ipc_event_rx = Len(sent)
    /\ state = "Idle"
    /\ mode_writer.by = "set_state"
    /\ mode_writer.mode # "Idle"
    /\ server_state.status.mode = "Idle"

\* C20: after the shutdown broadcast every handler in flight stops, the
\* ones blocked on a read included.
C20_HandlersStop ==
    (main_pc = "stopped") ~>
        (\A c \in Conns : conns[c].pc \notin InFlight)

\* Both handlers were stopped by the broadcast while blocked: one waiting
\* for a length that never came, one for a payload that never came.
C20_Witness ==
    \E c, d \in Conns :
        /\ conns[c].ended = "shutdown"
        /\ conns[c].prefixes_read = 0
        /\ conns[c].inbox = <<>>
        /\ ~conns[c].peer_closed
        /\ conns[d].ended = "shutdown"
        /\ conns[d].prefixes_read = 1
        /\ conns[d].payloads_read = 0
        /\ Head(conns[d].inbox).msg = Missing
        /\ ~conns[d].peer_closed


\* The bus position a Receiver had reached before its i-th receive.
PosBefore(i) == IF i = 1 THEN 0 ELSE received[i - 1].result.next

\* What every receive of main's event loop has returned, whatever the lag:
\* an event is the next one in publish order; Lagged(n) comes only when
\* more than the capacity is unread, n being the number skipped and the
\* position afterwards the oldest value kept.
ReceivedInOrder ==
    /\ ipc_event_rx =
          (IF received = <<>> THEN 0 ELSE received[Len(received)].result.next)
    /\ \A i \in 1..Len(received) :
          LET r == received[i].result
          IN  IF r.type = "Ok"
              THEN /\ r.next = PosBefore(i) + 1
                   /\ r.event = sent[r.next]
              ELSE /\ received[i].tail - PosBefore(i) > EventCapacity
                   /\ r.n = r.next - PosBefore(i)
                   /\ r.n > 0
                   /\ received[i].tail - r.next = EventCapacity

\* Publishing does not wait for or disturb any Receiver and does not fail
\* the engine: a publishing step is always possible, takes every event into
\* the channel and leaves the Receiver where it was, and the engine's mode
\* stays the fold of what it handled.
PublishNeverBlocks ==
    /\ [](Len(sent) < MaxPublished => ENABLED BusEngineCall)
    /\ [](state = fold.mode /\ tail = Len(sent))
    /\ [][sent' # sent =>
            /\ tail' = Len(sent')
            /\ ipc_event_rx' = ipc_event_rx
            /\ received' = received]_vars

\* C21 (as stated, the receiving side): a Receiver more than the capacity
\* behind loses only its oldest unread events, is told how many, and its
\* next receive returns the oldest event kept; otherwise it receives every
\* event in publish order.
C21_AsStated ==
    /\ ReceivedInOrder
    /\ \A i \in 1..(Len(received) - 1) :
          received[i].result.type = "Lagged" =>
              /\ received[i + 1].result.type = "Ok"
              /\ received[i + 1].result.next = received[i].result.next + 1

\* C21: publishing never blocks and never fails the engine however far the
\* Receivers are behind; a Receiver more than the capacity behind loses
\* only its oldest unread events and is told how many; the receive after a
\* Lagged returns the oldest event kept unless the engine has published in
\* between, in which case it reports Lagged again; a Receiver within the
\* capacity receives every event in publish order while the never-read
\* Receivers are behind.
C21_BackPressure ==
    /\ PublishNeverBlocks
    /\ [](/\ ReceivedInOrder
          /\ \A i \in 1..(Len(received) - 1) :
                received[i].result.type = "Lagged" =>
                    IF received[i + 1].tail = received[i].tail
                    THEN /\ received[i + 1].result.type = "Ok"
                         /\ received[i + 1].result.next = received[i].result.next + 1
                         /\ received[i + 1].result.event =
                               sent[received[i].tail - EventCapacity + 1]
                    ELSE /\ received[i + 1].result.type = "Lagged"
                         /\ received[i + 1].tail > received[i].tail)

\* The event loop was 65 events behind, was told it missed one and then
\* received the second event published, with nothing published in between.
C21_Witness ==
    /\ Len(received) >= 2
    /\ received[1] = [result |-> [type |-> "Lagged", n |-> 1, next |-> 1], tail |-> 65]
    /\ received[2].result.type = "Ok"
    /\ received[2].result.event = sent[2]
    /\ tail = 65
    /\ state = "DictationActive"

C23_AsStated ==
    codec.pc = "decoded" =>
        /\ codec.decoded.ok
        /\ codec.decoded.value = codec.value

\* C24 (as stated): with the key-hook unavailable or disabled the daemon
\* answers GetStatus with hotkey_registered = false.
C24_AsStated ==
    ( /\ ipc_last.called
      /\ ipc_last.request.type = "get_status"
      /\ ipc_last.tap \in {"unavailable", "disabled"} )
    => /\ ipc_last.response.type = "status"
       /\ ipc_last.response.hotkey_registered = FALSE

\* C25 (as stated): a server's shutdown never removes the socket file of a
\* different live server.
C25_AsStated ==
    [][\A s \in Servers :
          ( /\ servers[s] = "live"
            /\ servers'[s] = "down"
            /\ path_file \notin {0, s}
            /\ servers[path_file] = "live" )
          => path_file' = path_file]_vars

\* C26: the engine loop handles the Modifier States in the order they were
\* sent, without skipping any; what is queued is exactly what was sent and
\* not yet handled; the loop has stopped only with the channel closed and
\* empty and everything sent handled, and with the channel closed it can
\* always go on to that end; the engine's mode is the fold of what was
\* handled.
C26_FifoUntilClosed ==
    /\ Len(handled) <= Len(forwarded)
    /\ handled = SubSeq(forwarded, 1, Len(handled))
    /\ hotkey_ch = [i \in 1..(Len(forwarded) - Len(handled)) |->
                        ModifierChanged(forwarded[Len(handled) + i])]
    /\ run_pc = "stopped" =>
          /\ ~hotkey_open
          /\ hotkey_ch = <<>>
          /\ handled = forwarded
    /\ (run_pc = "running" /\ ~hotkey_open) =>
          IF hotkey_ch # <<>> THEN ENABLED EngineRecv ELSE ENABLED EngineStop
    /\ state = fold.mode
    /\ handled # <<>> =>
          /\ last_call.called
          /\ last_call.modifiers = handled[Len(handled)]
          /\ prev_modifiers = handled[Len(handled)]

\* The loop has stopped after handling three Modifier States, in order.
C26_Witness ==
    /\ run_pc = "stopped"
    /\ Len(handled) = 3
    /\ handled = forwarded
    /\ ~hotkey_open

\* C27: the listener sends a Modifier State only when it differs from the
\* last one it sent (initially all released): no two consecutive Modifier
\* States sent or handled are equal, and the first is not all-released.
C27_Coalesced ==
    /\ \A i \in 1..(Len(forwarded) - 1) : forwarded[i] # forwarded[i + 1]
    /\ forwarded # <<>> => forwarded[1] # DefaultModifiers
    /\ \A i \in 1..(Len(handled) - 1) : handled[i] # handled[i + 1]
    /\ handled # <<>> => handled[1] # DefaultModifiers
    /\ last_state =
          (IF forwarded = <<>> THEN DefaultModifiers ELSE forwarded[Len(forwarded)])

\* Control was pressed, released and pressed again, and the engine has
\* handled all three.
C27_Witness ==
    /\ forwarded = <<ControlOnly, DefaultModifiers, ControlOnly>>
    /\ handled = forwarded
    /\ state = "DictationActive"

\* C28 (as stated): in every reachable state the snapshot's mode is the
\* protocol mapping of the server's tracked internal state.
C28_AsStated ==
    server_state.status.mode = mode_from_state(server_state.current_state)

\* The modes the engine has entered according to the first n events, Idle
\* (its initial mode) included.
OccupiedModes(n) ==
    {"Idle"}
        \cup {mode_from_state(ModeOfEntry(sent[i].type)) :
                i \in {j \in 1..n : sent[j].type \in EntryKinds}}

\* C29 (as stated): with no SetMode served, a GetStatus returns a mode the
\* engine has occupied, and one served after the engine went directly from
\* Dictation to Intelligent does not report Idle. The second part is read
\* for a snapshot that had already caught up with Dictation, so that an Idle
\* is not merely an old value.
C29_AsStated ==
    ( /\ ipc_last.called
      /\ ipc_last.request.type = "get_status"
      /\ \A c \in Conns : \A i \in 1..Len(conns[c].reqs) :
            conns[c].reqs[i].type # "set_mode" )
    => /\ ipc_last.response.mode \in OccupiedModes(ipc_last.published)
       /\ ( /\ ipc_last.published = Len(sent)
            /\ ipc_last.received >= Len(sent) - 2
            /\ last_call.emitted # <<>>
            /\ last_call.old_state = "DictationActive"
            /\ state = "IntelligentActive" )
          => ipc_last.response.mode # "Idle"

\* C30: a step that serves a client request leaves the engine's mode,
\* previous Modifier State, entry instant and published events as they
\* were; SetMode changes the snapshot's mode field and nothing else of the
\* shared state, Ping and Subscribe change nothing of it, GetStatus only
\* refreshes the uptime. The engine's mode and events stay the fold of the
\* Modifier States it handled, whatever the clients sent.
C30_RequestFrame ==
    /\ [][\A c \in Conns :
            (conns[c].pc = "read_body" /\ conns'[c].pc = "write") =>
                /\ state' = state
                /\ prev_modifiers' = prev_modifiers
                /\ state_entered_at' = state_entered_at
                /\ sent' = sent
                /\ ipc_last'.request.type = "set_mode" =>
                      server_state' =
                          [server_state EXCEPT !.status.mode = ipc_last'.request.mode]
                /\ ipc_last'.request.type \in {"ping", "subscribe"} =>
                      server_state' = server_state
                /\ ipc_last'.request.type = "get_status" =>
                      [server_state' EXCEPT !.status.uptime_secs = 0]
                          = [server_state EXCEPT !.status.uptime_secs = 0]]_vars
    /\ [](state = fold.mode /\ Kinds(sent) = fold.kinds)

\* A SetMode{Agent} was served while the engine was in Dictation: the
\* snapshot says Agent, the engine and the tracked state still Dictation.
C30_Witness ==
    /\ ipc_last.called
    /\ ipc_last.request = SetMode("Agent")
    /\ server_state.status.mode = "Agent"
    /\ state = "DictationActive"
    /\ server_state.current_state = "DictationActive"
    /\ sent = <<DictationStarted>>


TypeOK ==
    /\ state \in States
    /\ prev_modifiers \in ModifierStates
    /\ state_entered_at \in {None} \cup {Some(t) : t \in 0..MaxClock}
    /\ now \in 0..MaxClock
    /\ Len(sent) <= MaxSent + 1

====
